---- MODULE Spec2Model ----
(***************************************************************************)
(* The streaming conversation controller of the results page (ResultsPage):*)
(* one conversation, the module-level prevEventSource reference, the       *)
(* EventSource objects makeSearch creates, and the handlers attached to    *)
(* them.  Each action is one handler run to completion, together with the  *)
(* re-render and the effects the handler's state updates trigger.          *)
(***************************************************************************)
EXTENDS Integers, Sequences, FiniteSets, TLC

\* ------------------------------------------------------------------ bounds
MaxSteps == 6   \* handler runs in one behaviour (makeSearch calls, message and error events)

\* ------------------------------------------------------------ input values
\* An optional JavaScript value: absent/undefined is <<>>, a value x is <<x>>.
None == <<>>
Some(x) == <<x>>

InitialQueries == {"find"}
OtherQueries == {"grep"}
Messages == {"why"}

S1 == [relative_path |-> "a.ts", text |-> "let a", repo_name |-> "r1", lang |-> "ts", start_line |-> 1]
S2 == [relative_path |-> "b.rs", text |-> "fn b", repo_name |-> "r2", lang |-> "rs", start_line |-> 7]

\* ev.data of a message event.  raw is "[DONE]" for the sentinel and "json"
\* for a payload JSON.parse turns into an object with these optional keys.
Payload(raw, err, qid, snippets, ok) ==
    [raw |-> raw, Err |-> err, query_id |-> qid, snippets |-> snippets, Ok |-> ok]

DonePayload == Payload("[DONE]", None, None, None, None)
ErrPayloads == {Payload("json", Some("bad query"), None, None, None)}
HeaderPayloads == {Payload("json", None, Some("q1"), Some(<<S1, S2>>), None)}
TokenPayloads ==
    {Payload("json", None, None, None, ok) : ok \in {Some("Hello"), Some(" world")}}
\* ev.data that is neither the sentinel nor JSON
MalformedPayload == Payload("<html>", None, None, None, None)
Payloads ==
    {DonePayload, MalformedPayload} \cup ErrPayloads \cup HeaderPayloads \cup TokenPayloads

\* JSON.parse(ev.data) returns instead of throwing
Parses(p) == p.raw = "json"

\* the error event of an EventSource: it carries no data
ErrorEvent == Payload("error", None, None, None, None)

ErrorText == "Sorry, something went wrong"

\* ------------------------------------------------------------------- state
VARIABLES
    mounted,                  \* the mount effects of ResultsPage have run
    query,                    \* the query prop
    conversation,             \* useState<ConversationMessage[]>
    refs,                     \* identity of the object at each index of conversation
    nextRef,                  \* next fresh object identity
    isLoading,                \* useState(true)
    searchId,                 \* useState('')
    currentlyViewedSnippets,  \* useState(0), a 0-based index
    prevEventSource,          \* module-level reference: 0 is undefined, else a session
    es,                       \* the EventSource objects created so far, in creation order
    nSteps,                   \* handler runs so far
    trace,                    \* events handled since the last makeSearch, each with its session
    pinned,                   \* the caller set currentlyViewedSnippets and no server turn was appended since
    faulted,                  \* an exception has escaped a handler
    owner,                    \* for each EventSource, the ResultsPage instance that created it
    slot                      \* for each EventSource, the position of the placeholder its makeSearch appended

vars == <<mounted, query, conversation, refs, nextRef, isLoading, searchId,
          currentlyViewedSnippets, prevEventSource, es, nSteps, trace, pinned,
          faulted, owner, slot>>

\* the sessions started so far; the newest one is Len(es)
Sessions == 1..Len(es)

\* ------------------------------------------------------------ pure helpers
UserTurn(message) ==
    [author |-> "user", text |-> Some(message), isLoading |-> FALSE,
     error |-> None, snippets |-> None]

PlaceholderTurn ==
    [author |-> "server", text |-> None, isLoading |-> TRUE,
     error |-> None, snippets |-> None]

TransportErrorTurn ==
    [author |-> "server", text |-> None, isLoading |-> FALSE,
     error |-> Some(ErrorText), snippets |-> None]

\* newData.snippets.map((item) => ({path: item.relative_path, ...}))
MapSnippet(item) ==
    [path |-> item.relative_path, code |-> item.text, repoName |-> item.repo_name,
     lang |-> item.lang, line |-> item.start_line]

MapSnippets(items) == [k \in 1..Len(items) |-> MapSnippet(items[k])]

\* JavaScript truthiness of an optional string
Truthy(opt) == opt # None /\ opt[1] # ""

\* String(x) as done by `+` on an optional string
ToStr(opt) == IF opt = None THEN "undefined" ELSE opt[1]

\* prev.slice(0, -1) and prev.slice(-1)[0]
ButLast(seq) == SubSeq(seq, 1, Len(seq) - 1)
LastOf(seq) == seq[Len(seq)]

\* serverResponses[serverResponses.length - 1], as an object identity (0: undefined)
LastServerResponse(conv, rf) ==
    LET idx == {k \in 1..Len(conv) : conv[k].author = "server"}
    IN IF idx = {} THEN 0 ELSE rf[CHOOSE k \in idx : \A j \in idx : j <= k]

\* the effect reading the conversation of the render before the update
ViewedAfterRenderStale(conv, rf, conv2, rf2, viewed) ==
    IF LastServerResponse(conv2, rf2) # LastServerResponse(conv, rf)
    THEN Len(conv) - 1
    ELSE viewed

\* useEffect(() => setCurrentlyViewedSnippets(conversation.length - 1), [lastServerResponse])
ViewedAfterRender(conv, rf, conv2, rf2, viewed) ==
    IF LastServerResponse(conv2, rf2) # LastServerResponse(conv, rf)
    THEN Len(conv2) - 1
    ELSE viewed

\* ------------------------------------------------------ handler fragments
\* makeSearch without its prevEventSource?.close()
ClosePrevSkipped(sources, prev) == sources

\* prevEventSource?.close()
ClosePrev(sources, prev) ==
    IF prev = 0 THEN sources ELSE [sources EXCEPT ![prev].state = "closed"]

\* new EventSource(`.../answer?q=${question}&user_id=${deviceId}`); let i = 0
NewSource(question) == [state |-> "open", i |-> 0, q |-> question]

\* setConversation((prev) => [...prev, { author: 'server', isLoading: true }])
WithPlaceholder(conv) == Append(conv, PlaceholderTurn)

\* handleNewMessage appending the user turn as a loading one
WithUserTurnLoading(conv, message) ==
    Append(conv, [UserTurn(message) EXCEPT !.isLoading = TRUE])

\* setConversation((prev) => [...prev, { author: 'user', text: message, isLoading: false }])
WithUserTurn(conv, message) == Append(conv, UserTurn(message))

\* the [DONE] branch without isLoading: false
DoneTurnKeepsLoading(turn) == turn

\* { ...prev.slice(-1)[0], isLoading: false }
DoneTurn(turn) == [turn EXCEPT !.isLoading = FALSE]

\* the Err branch without isLoading: false
ErrTurnStillLoading(turn, newData) == [turn EXCEPT !.error = newData.Err]

\* { ...prev.slice(-1)[0], isLoading: false, error: newData.Err }
ErrTurn(turn, newData) == [turn EXCEPT !.isLoading = FALSE, !.error = newData.Err]

\* { ...prev.slice(-1)[0], isLoading: true, snippets: newData?.snippets?.map(...) || [] }
HeaderTurn(turn, newData) ==
    [turn EXCEPT !.isLoading = TRUE,
                 !.snippets = IF newData.snippets = None
                              THEN Some(<<>>)
                              ELSE Some(MapSnippets(newData.snippets[1]))]

\* the token branch putting the fragment in front of the text
TokenTurnPrepending(turn, newData) ==
    [turn EXCEPT !.text = Some(ToStr(newData.Ok)
                               \o (IF Truthy(turn.text) THEN turn.text[1] ELSE ""))]

\* { ...prev.slice(-1)[0], text: (prev.slice(-1)[0].text || '') + newData.Ok }
TokenTurn(turn, newData) ==
    [turn EXCEPT !.text = Some((IF Truthy(turn.text) THEN turn.text[1] ELSE "")
                               \o ToStr(newData.Ok))]

\* the replacement cutting one element too many: prev.slice(0, -2)
ReplaceLastCuttingTwo(conv, turn) == Append(ButLast(ButLast(conv)), turn)

\* [...prev.slice(0, -1), lastMessage]
ReplaceLast(conv, turn) == Append(ButLast(conv), turn)

\* onerror writing its error into the last turn, as the Err branch does
WithTransportErrorInPlace(conv) ==
    ReplaceLast(conv, [LastOf(conv) EXCEPT !.isLoading = FALSE, !.error = Some(ErrorText)])

\* the onerror handler's setConversation
WithTransportError(conv) == Append(conv, TransportErrorTurn)

\* the [DONE] branch without eventSource.close()
SourceAfterDoneLeftOpen(source) == source

\* What the [DONE] branch leaves of the EventSource: eventSource.close()
SourceAfterDone(source) == [source EXCEPT !.state = "closed"]

\* What the non-sentinel branch leaves of the EventSource: i++ and nothing else
SourceAfterData(source) == [source EXCEPT !.i = source.i + 1]

\* The onerror handler does not touch the EventSource.  The browser either
\* keeps it for a reconnect (readyState CONNECTING, then OPEN again) or has
\* failed the connection for good (readyState CLOSED) before the event fires.
SourceAfterError(source, fatal) ==
    IF fatal THEN [source EXCEPT !.state = "closed"] ELSE source

\* --------------------------------------------------------------------- Init
Init ==
    /\ mounted = FALSE
    /\ query \in InitialQueries
    /\ conversation = <<UserTurn(query)>>
    /\ refs = <<1>>
    /\ nextRef = 2
    /\ isLoading = TRUE
    /\ searchId = Some("")
    /\ currentlyViewedSnippets = 0
    /\ prevEventSource = 0
    /\ es = <<>>
    /\ nSteps = 0
    /\ trace = <<>>
    /\ pinned = FALSE
    /\ faulted = FALSE
    /\ owner = <<>>
    /\ slot = <<>>

\* ------------------------------------------------------------------ actions
\* makeSearch(question), called with the conversation conv the caller has
\* already queued (handleNewMessage appends the user turn first).
makeSearch(question, conv, rf, nref) ==
    LET conv2 == WithPlaceholder(conv)
        rf2 == Append(rf, nref)
    IN /\ nSteps < MaxSteps
       /\ nSteps' = nSteps + 1
       /\ isLoading' = TRUE
       /\ es' = Append(ClosePrev(es, prevEventSource), NewSource(question))
       /\ prevEventSource' = Len(es) + 1
       /\ conversation' = conv2
       /\ refs' = rf2
       /\ nextRef' = nref + 1
       /\ currentlyViewedSnippets' =
              ViewedAfterRender(conversation, refs, conv2, rf2, currentlyViewedSnippets)
       /\ trace' = <<>>
       /\ pinned' = FALSE
       /\ owner' = Append(owner, 1)
       /\ slot' = Append(slot, Len(conv2))
       /\ UNCHANGED <<searchId, faulted>>

\* First render: useEffect(() => makeSearch(query), [query]) and the
\* currentlyViewedSnippets effect both run.
Mount ==
    /\ ~mounted
    /\ mounted' = TRUE
    /\ makeSearch(query, conversation, refs, nextRef)
    /\ UNCHANGED query

\* The query prop changes: the [query] effect calls makeSearch again.
QueryChange(q) ==
    /\ mounted
    /\ q # query
    /\ query' = q
    /\ makeSearch(q, conversation, refs, nextRef)
    /\ UNCHANGED mounted

handleNewMessage(message) ==
    /\ mounted
    /\ makeSearch(message, WithUserTurn(conversation, message),
                  Append(refs, nextRef), nextRef + 1)
    /\ UNCHANGED <<mounted, query>>

\* setConversation with a replaced last element, then the re-render
SetLast(turn) ==
    LET conv2 == ReplaceLast(conversation, turn)
        rf2 == Append(ButLast(refs), nextRef)
    IN /\ conversation' = conv2
       /\ refs' = rf2
       /\ nextRef' = nextRef + 1
       /\ currentlyViewedSnippets' =
              ViewedAfterRender(conversation, refs, conv2, rf2, currentlyViewedSnippets)

\* eventSource.onmessage of session s with ev.data = p
onmessage(s, p) ==
    /\ owner[s] = 1
    /\ es[s].state = "open"
    /\ nSteps < MaxSteps
    /\ nSteps' = nSteps + 1
    /\ IF p.raw = "[DONE]"
       THEN /\ es' = [es EXCEPT ![s] = SourceAfterDone(es[s])]
            /\ SetLast(DoneTurn(LastOf(conversation)))
            /\ prevEventSource' = 0
            /\ UNCHANGED <<isLoading, searchId, faulted>>
       ELSE IF ~Parses(p)
       THEN \* JSON.parse throws: the handler ends there, before i++
            /\ faulted' = TRUE
            /\ UNCHANGED <<conversation, refs, nextRef, currentlyViewedSnippets,
                           isLoading, searchId, es, prevEventSource>>
       ELSE /\ IF es[s].i = 0
               THEN IF Truthy(p.Err)
                    THEN /\ isLoading' = FALSE
                         /\ SetLast(ErrTurn(LastOf(conversation), p))
                         /\ UNCHANGED searchId
                    ELSE /\ isLoading' = FALSE
                         /\ searchId' = p.query_id
                         /\ SetLast(HeaderTurn(LastOf(conversation), p))
               ELSE /\ SetLast(TokenTurn(LastOf(conversation), p))
                    /\ UNCHANGED <<isLoading, searchId>>
            /\ es' = [es EXCEPT ![s] = SourceAfterData(es[s])]
            /\ UNCHANGED <<prevEventSource, faulted>>
    /\ trace' = Append(trace, [sess |-> s, ev |-> p])
    /\ UNCHANGED <<mounted, query, pinned, owner, slot>>

\* eventSource.onerror of session s
onerror(s, fatal) ==
    LET conv2 == WithTransportError(conversation)
        rf2 == Append(refs, nextRef)
    IN /\ owner[s] = 1
       /\ es[s].state = "open"
       /\ nSteps < MaxSteps
       /\ nSteps' = nSteps + 1
       /\ isLoading' = FALSE
       /\ conversation' = conv2
       /\ refs' = rf2
       /\ nextRef' = nextRef + 1
       /\ currentlyViewedSnippets' =
              ViewedAfterRender(conversation, refs, conv2, rf2, currentlyViewedSnippets)
       /\ es' = [es EXCEPT ![s] = SourceAfterError(es[s], fatal)]
       /\ trace' = Append(trace, [sess |-> s, ev |-> ErrorEvent])
       /\ pinned' = FALSE
       /\ UNCHANGED <<mounted, query, searchId, prevEventSource, faulted, owner, slot>>

\* onViewSnippetsClick={setCurrentlyViewedSnippets}
setCurrentlyViewedSnippets(k) ==
    /\ mounted
    /\ currentlyViewedSnippets' = k
    /\ pinned' = TRUE
    /\ UNCHANGED <<mounted, query, conversation, refs, nextRef, isLoading, searchId,
                   prevEventSource, es, nSteps, trace, faulted, owner, slot>>

Next ==
    \/ Mount
    \/ \E q \in InitialQueries \cup OtherQueries : QueryChange(q)
    \/ \E m \in Messages : handleNewMessage(m)
    \/ \E s \in Sessions, p \in Payloads : onmessage(s, p)
    \/ \E s \in Sessions, fatal \in BOOLEAN : onerror(s, fatal)
    \/ \E k \in 0..(Len(conversation) - 1) : setCurrentlyViewedSnippets(k)

Spec == Init /\ [][Next]_vars

\* ------------------------------------------- a second ResultsPage instance
\* A second instance of the component runs the same makeSearch and onmessage
\* against the same module-level prevEventSource.  Of its handlers, only
\* what they do to the shared reference and to the EventSource objects is
\* kept; its own React state is not part of this model.
ThisInstanceState ==
    <<mounted, query, conversation, refs, nextRef, isLoading, searchId,
      currentlyViewedSnippets, trace, pinned, faulted>>

\* makeSearch(question) of the second instance
otherMakeSearch(question) ==
    /\ mounted
    /\ nSteps < MaxSteps
    /\ nSteps' = nSteps + 1
    /\ es' = Append(ClosePrev(es, prevEventSource), NewSource(question))
    /\ prevEventSource' = Len(es) + 1
    /\ owner' = Append(owner, 2)
    /\ slot' = Append(slot, 0)
    /\ UNCHANGED ThisInstanceState

\* the [DONE] branch of onmessage of the second instance's session s
otherDone(s) ==
    /\ owner[s] = 2
    /\ es[s].state = "open"
    /\ nSteps < MaxSteps
    /\ nSteps' = nSteps + 1
    /\ es' = [es EXCEPT ![s] = SourceAfterDone(es[s])]
    /\ prevEventSource' = 0
    /\ UNCHANGED <<owner, slot>>
    /\ UNCHANGED ThisInstanceState

NextTwo ==
    \/ Next
    \/ \E q \in OtherQueries : otherMakeSearch(q)
    \/ \E s \in Sessions : otherDone(s)

SpecTwo == Init /\ [][NextTwo]_vars

TypeOK ==
    /\ Len(refs) = Len(conversation)
    /\ currentlyViewedSnippets \in 0..(Len(conversation) - 1)
    /\ prevEventSource \in 0..Len(es)
    /\ Len(owner) = Len(es)
    /\ Len(slot) = Len(es)

\* ------------------------------------------------------- step recognisers
\* A step that ran makeSearch: a new EventSource exists afterwards.
MakeSearchStep == Len(es') = Len(es) + 1

\* A step that ran handleNewMessage (the mount and the query effect differ
\* from it in mounted and query).
SubmitStep == MakeSearchStep /\ mounted /\ query' = query

\* A step that ran a handler of session s: onmessage or onerror.
EventStep(s) == Len(trace') = Len(trace) + 1 /\ LastOf(trace').sess = s

\* The event such a step handled.
HandledEvent == LastOf(trace').ev

MessageStep(s) == EventStep(s) /\ HandledEvent.raw # "error"
ErrorStep(s) == EventStep(s) /\ HandledEvent.raw = "error"

OpenSessions == {s \in Sessions : es[s].state = "open"}
LoadingTurns == {k \in 1..Len(conversation) : conversation[k].isLoading}

\* ------------------------------------------------------------------ claims
\* C1: stale-stream exclusion.  A submit leaves every earlier connection
\* closed, and no message or error event of a session older than the newest
\* one changes the conversation, isLoading or the session reference.
C1_StaleStreamExclusion ==
    [][/\ SubmitStep => \A s \in 1..Len(es) : es'[s].state = "closed"
       /\ \A s \in 1..(Len(es) - 1) :
              EventStep(s) => UNCHANGED <<conversation, isLoading, prevEventSource>>]_vars

\* C1 witness: session 1 was superseded by a submit while its placeholder was
\* still loading, and the new session has handled an event since.
C1_Witness ==
    /\ Len(es) = 2
    /\ Len(conversation) >= 4
    /\ conversation[2].isLoading
    /\ conversation[3].author = "user"
    /\ es[1].state = "closed"
    /\ trace # <<>>
    /\ trace[1].sess = 2

\* C2: at most one event-stream connection is open in every reachable state.
C2_AtMostOneLiveStream == Cardinality(OpenSessions) <= 1

\* C2 witness: a third session is live after one session ended with [DONE]
\* and another was superseded.
C2_Witness ==
    /\ Len(es) = 3
    /\ es[3].state = "open"
    /\ ~conversation[2].isLoading
    /\ trace # <<>>

\* C3: submit(M) turns the conversation C into C ++ [user turn of M] ++
\* [server placeholder], M being the question the new connection asks.
C3_SubmitAppendsUserAndPlaceholder ==
    [][SubmitStep =>
         conversation' = conversation \o
           <<[author |-> "user", text |-> <<LastOf(es').q>>, isLoading |-> FALSE,
              error |-> <<>>, snippets |-> <<>>],
             [author |-> "server", text |-> <<>>, isLoading |-> TRUE,
              error |-> <<>>, snippets |-> <<>>]>>]_vars

\* C3 witness: a submit has just run on a conversation whose first server
\* turn already carries snippets and text.
C3_Witness ==
    /\ Len(es) >= 2
    /\ trace = <<>>
    /\ Len(conversation) >= 4
    /\ conversation[Len(conversation) - 1].author = "user"
    /\ LastOf(conversation).isLoading
    /\ conversation[2].snippets # <<>>
    /\ conversation[2].text # <<>>

\* C4: at most one turn of the conversation has isLoading = true.
C4_AtMostOneLoadingTurn == Cardinality(LoadingTurns) <= 1

\* The events of session s handled since it started, oldest first.
EventsOf(s) == SelectSeq(trace, LAMBDA e : e.sess = s)

\* The non-sentinel payloads among them: the first is the one handled at i = 0.
DataOf(s) == SelectSeq(EventsOf(s), LAMBDA e : e.ev.raw = "json")

RECURSIVE ConcatOk(_)
\* f1 ++ ... ++ fk for token events carrying Ok fragments
ConcatOk(events) ==
    IF events = <<>> THEN "" ELSE events[1].ev.Ok[1] \o ConcatOk(Tail(events))

\* The newest session has handled exactly: a first event without Err that
\* carries query_id and snippets, then token events that carry Ok, then the
\* sentinel; no error event and no event of another session in between.
CleanRun ==
    /\ Len(trace) >= 2
    /\ \A k \in 1..Len(trace) : trace[k].sess = Len(es)
    /\ trace[1].ev.raw = "json"
    /\ ~Truthy(trace[1].ev.Err)
    /\ trace[1].ev.query_id # <<>>
    /\ trace[1].ev.snippets # <<>>
    /\ \A k \in 2..(Len(trace) - 1) : trace[k].ev.raw = "json" /\ trace[k].ev.Ok # <<>>
    /\ LastOf(trace).ev.raw = "[DONE]"

CleanRunTokens == SubSeq(trace, 2, Len(trace) - 1)

CleanRunSnippets ==
    LET raw == trace[1].ev.snippets[1]
    IN [k \in 1..Len(raw) |->
          [path |-> raw[k].relative_path, code |-> raw[k].text,
           repoName |-> raw[k].repo_name, lang |-> raw[k].lang,
           line |-> raw[k].start_line]]

\* C5 as stated: after header, k >= 0 tokens and [DONE] the last turn is the
\* server turn with the mapped snippets and text f1 ++ ... ++ fk.
C5_Original ==
    CleanRun =>
        LastOf(conversation) =
            [author |-> "server", isLoading |-> FALSE, error |-> <<>>,
             snippets |-> <<CleanRunSnippets>>,
             text |-> <<ConcatOk(CleanRunTokens)>>]

\* C5 amended: as above for k >= 1; for k = 0 the last turn has no text.
C5_StreamAssembly ==
    CleanRun =>
        LastOf(conversation) =
            [author |-> "server", isLoading |-> FALSE, error |-> <<>>,
             snippets |-> <<CleanRunSnippets>>,
             text |-> IF CleanRunTokens = <<>> THEN <<>>
                      ELSE <<ConcatOk(CleanRunTokens)>>]

\* C5 witness: header, "Hello", " world", [DONE] have been handled.
C5_Witness ==
    /\ CleanRun
    /\ Len(CleanRunTokens) = 2
    /\ LastOf(conversation).text = <<"Hello world">>
    /\ Len(LastOf(conversation).snippets[1]) = 2

\* The first non-sentinel event session s handled carried Err.
FailedInBand(s) == DataOf(s) # <<>> /\ Truthy(DataOf(s)[1].ev.Err)

\* C6: once the first event of a session carried Err, no later event of that
\* session changes the conversation.
C6_InBandFailureIsTerminal ==
    [][\A s \in Sessions :
          FailedInBand(s) /\ EventStep(s) => conversation' = conversation]_vars

\* C7: an Err in the first event of a session keeps the conversation's
\* length and every turn but the last, makes the last turn the placeholder
\* with isLoading = false and error = Err, and clears isLoading.
C7_InBandFailureMutatesInPlace ==
    [][\A s \in Sessions :
          MessageStep(s) /\ es[s].i = 0 /\ HandledEvent.raw = "json"
            /\ Truthy(HandledEvent.Err)
          => /\ Len(conversation') = Len(conversation)
             /\ ButLast(conversation') = ButLast(conversation)
             /\ LastOf(conversation') =
                    [author |-> "server", text |-> <<>>, isLoading |-> FALSE,
                     error |-> HandledEvent.Err, snippets |-> <<>>]
             /\ isLoading' = FALSE]_vars

\* C7 witness: the second session failed in band, after a first session that
\* streamed a header.
C7_Witness ==
    /\ Len(es) >= 2
    /\ Len(conversation) >= 4
    /\ trace # <<>>
    /\ LastOf(trace).ev.Err = <<"bad query">>
    /\ Len(DataOf(Len(es))) = 1
    /\ LastOf(conversation).error = <<"bad query">>
    /\ conversation[2].snippets # <<>>
    /\ ~isLoading

\* C8: an error event appends exactly one server turn with the fixed error
\* text, clears isLoading and leaves every earlier turn as it was.
C8_TransportFailureAppends ==
    [][\A s \in Sessions :
          ErrorStep(s) =>
             /\ conversation' = Append(conversation,
                    [author |-> "server", text |-> <<>>, isLoading |-> FALSE,
                     error |-> <<"Sorry, something went wrong">>, snippets |-> <<>>])
             /\ isLoading' = FALSE]_vars

\* C8 witness: the error came after streaming had started; the in-flight
\* turn keeps its partial text, its snippets and isLoading = true.
C8_Witness ==
    /\ trace # <<>>
    /\ LastOf(trace).ev.raw = "error"
    /\ Len(conversation) >= 3
    /\ conversation[Len(conversation) - 1].text = <<"Hello">>
    /\ conversation[Len(conversation) - 1].snippets # <<>>
    /\ conversation[Len(conversation) - 1].isLoading
    /\ LastOf(conversation).error = <<"Sorry, something went wrong">>

\* Session s has had an error event.
FailedInTransport(s) == \E k \in 1..Len(trace) : trace[k].sess = s /\ trace[k].ev.raw = "error"

\* C9: after an error event of a session, no later message or error event of
\* that session changes the conversation or isLoading.
C9_TransportFailureIsTerminal ==
    [][\A s \in Sessions :
          FailedInTransport(s) /\ EventStep(s) => UNCHANGED <<conversation, isLoading>>]_vars

\* C10: once the caller has set currentlyViewedSnippets, a message event
\* (header, token or [DONE]) leaves it as set; no such event appends a turn.
C10_ManualNavigationIsSticky ==
    [][\A s \in Sessions :
          pinned /\ MessageStep(s) => currentlyViewedSnippets' = currentlyViewedSnippets]_vars

\* A step that appended a server turn: makeSearch's placeholder or onerror's
\* error turn.
ServerTurnAppended ==
    /\ Len(conversation') > Len(conversation)
    /\ LastOf(conversation').author = "server"

\* C11: whenever a server turn is appended, currentlyViewedSnippets becomes
\* the index of the newest server turn, conversation.length - 1.
C11_ViewFollowsNewServerTurn ==
    [][ServerTurnAppended =>
          /\ currentlyViewedSnippets' = Len(conversation') - 1
          /\ conversation'[currentlyViewedSnippets' + 1].author = "server"]_vars

\* C11 witness: an error turn was appended behind a streamed turn and is the
\* one viewed.
C11_Witness ==
    /\ trace # <<>>
    /\ LastOf(trace).ev.raw = "error"
    /\ Len(conversation) >= 5
    /\ LastOf(conversation).error = <<"Sorry, something went wrong">>
    /\ currentlyViewedSnippets = Len(conversation) - 1
    /\ ~pinned

\* C12: a payload that is neither the sentinel nor parseable has the outcome
\* of an error event (error turn appended, isLoading false) and no exception
\* escapes the handler.
C12_MalformedPayloadIsStreamError ==
    [][\A s \in Sessions :
          MessageStep(s) /\ HandledEvent.raw \notin {"[DONE]", "json"} =>
             /\ conversation' = Append(conversation,
                    [author |-> "server", text |-> <<>>, isLoading |-> FALSE,
                     error |-> <<"Sorry, something went wrong">>, snippets |-> <<>>])
             /\ isLoading' = FALSE
             /\ ~faulted']_vars

\* C13: every step leaves the conversation unchanged, appends turns to it,
\* or replaces only its last turn; no turn below the last is ever changed.
C13_AppendOnlyButLast ==
    [][\/ conversation' = conversation
       \/ /\ Len(conversation') > Len(conversation)
          /\ SubSeq(conversation', 1, Len(conversation)) = conversation
       \/ /\ Len(conversation') = Len(conversation)
          /\ ButLast(conversation') = ButLast(conversation)]_vars

\* C13 witness: a conversation that has been appended to by a submit and an
\* error and whose last turns were replaced by stream events.
C13_Witness ==
    /\ Len(conversation) >= 5
    /\ conversation[2].snippets # <<>>
    /\ conversation[2].text # <<>>
    /\ conversation[3].author = "user"
    /\ LastOf(conversation).error # <<>>

\* A step taken by the second instance: its makeSearch or its [DONE].
OtherInstanceStep ==
    \/ Len(es') = Len(es) + 1 /\ LastOf(owner') = 2
    \/ /\ Len(es') = Len(es)
       /\ \E s \in Sessions : owner[s] = 2 /\ es[s].state = "open" /\ es'[s].state = "closed"

StepOfInstance(c) == IF c = 2 THEN OtherInstanceStep ELSE ~OtherInstanceStep

\* C14: with two instances alive, a step of one instance never closes the
\* other instance's open connection nor clears the reference to it.
C14_SessionsAreIndependent ==
    [][\A s \in Sessions : \A c \in {1, 2} :
          es[s].state = "open" /\ owner[s] # c /\ StepOfInstance(c) =>
             /\ es'[s].state = "open"
             /\ prevEventSource = s => prevEventSource' = s]_vars

\* C15: the sentinel closes the connection, clears the session reference and
\* sets isLoading = false on the last turn, whose author, text, snippets and
\* error stay as they were; a closed session's events change nothing after.
C15_DoneIsTerminalSuccess ==
    [][\A s \in Sessions :
          /\ MessageStep(s) /\ HandledEvent.raw = "[DONE]" =>
                /\ es'[s].state = "closed"
                /\ prevEventSource' = 0
                /\ Len(conversation') = Len(conversation)
                /\ ButLast(conversation') = ButLast(conversation)
                /\ LastOf(conversation').isLoading = FALSE
                /\ LastOf(conversation').author = LastOf(conversation).author
                /\ LastOf(conversation').text = LastOf(conversation).text
                /\ LastOf(conversation').snippets = LastOf(conversation).snippets
                /\ LastOf(conversation').error = LastOf(conversation).error
          /\ es[s].state = "closed" /\ EventStep(s) => conversation' = conversation]_vars

\* C15 witness: the sentinel arrived after a header and a token; the turn
\* keeps both and is no longer loading.
C15_Witness ==
    /\ trace # <<>>
    /\ LastOf(trace).ev.raw = "[DONE]"
    /\ es[Len(es)].state = "closed"
    /\ prevEventSource = 0
    /\ LastOf(conversation).text = <<"Hello">>
    /\ LastOf(conversation).snippets # <<>>
    /\ ~LastOf(conversation).isLoading

\* The non-sentinel message events session s has handled so far, parseable
\* or not.
NonSentinelOf(s) == SelectSeq(EventsOf(s), LAMBDA e : e.ev.raw \notin {"[DONE]", "error"})

\* C16: a new session's counter starts at 0; the first non-sentinel event of
\* a session sets snippets or error on the last turn and leaves its text;
\* every later one leaves the last turn's snippets, error and isLoading and
\* appends its Ok fragment to the text.
C16_HeaderTokenSplit ==
    [][/\ MakeSearchStep => LastOf(es').i = 0
       /\ \A s \in Sessions :
             MessageStep(s) /\ HandledEvent.raw # "[DONE]" =>
                LET old == LastOf(conversation)
                    new == LastOf(conversation')
                IN IF NonSentinelOf(s) = <<>>
                   THEN /\ new.text = old.text
                        /\ \/ new.snippets # <<>> /\ new.error = old.error
                           \/ new.error = HandledEvent.Err /\ new.error # <<>>
                   ELSE /\ new.snippets = old.snippets
                        /\ new.error = old.error
                        /\ new.isLoading = old.isLoading
                        /\ HandledEvent.Ok # <<>> =>
                              new.text = <<(IF old.text = <<>> THEN "" ELSE old.text[1])
                                           \o HandledEvent.Ok[1]>>]_vars

\* A step that handled the first non-sentinel message of session s.
FirstDataStep(s) ==
    MessageStep(s) /\ HandledEvent.raw # "[DONE]" /\ NonSentinelOf(s) = <<>>

\* A step that handled the sentinel or a later non-sentinel message of s.
LaterMessageStep(s) ==
    MessageStep(s) /\ (HandledEvent.raw = "[DONE]" \/ NonSentinelOf(s) # <<>>)

\* C17: isLoading is true after every session start, becomes false at the
\* session's first non-sentinel event or at an error event and not before,
\* is left alone by token events and the sentinel, and becomes true again
\* only at a session start.
C17_LoadingFlagProtocol ==
    [][/\ MakeSearchStep => isLoading'
       /\ \A s \in Sessions : FirstDataStep(s) \/ ErrorStep(s) => ~isLoading'
       /\ \A s \in Sessions : LaterMessageStep(s) => isLoading' = isLoading
       /\ isLoading /\ ~isLoading' =>
             \E s \in Sessions : FirstDataStep(s) \/ ErrorStep(s)
       /\ ~isLoading /\ isLoading' => MakeSearchStep]_vars

\* The position whose object a step replaced (0: no object was replaced).
MutatedTurn ==
    LET changed == {k \in 1..Len(refs) : refs'[k] # refs[k]}
    IN IF changed = {} THEN 0 ELSE CHOOSE k \in changed : TRUE

\* C18: the turn a message event of session s replaces is the server
\* placeholder that the start of session s appended.
C18_EventsHitOwnPlaceholder ==
    [][\A s \in Sessions :
          MessageStep(s) /\ MutatedTurn # 0 =>
             /\ MutatedTurn = slot[s]
             /\ conversation[MutatedTurn].author = "server"]_vars

\* C19: whenever a session is started for question Q, the placeholder it
\* appends is directly preceded by a user turn whose text is Q.
C19_SessionStartPairedWithQuestion ==
    [][MakeSearchStep =>
          /\ LastOf(conversation').author = "server"
          /\ conversation'[Len(conversation') - 1].author = "user"
          /\ conversation'[Len(conversation') - 1].text = <<LastOf(es').q>>]_vars

\* C20: when the newest session has ended with the sentinel and no session
\* was started since, isLoading is false.
C20_NoLoadingAfterDone ==
    (trace # <<>> /\ \E k \in 1..Len(trace) : trace[k].ev.raw = "[DONE]") => ~isLoading

====
